---- MODULE Spec2Model ----
(***************************************************************************)
(* A model of the HP-GL command-stream parser of hpgl_input/hpgl_input.py. *)
(*                                                                         *)
(* A document is a sequence of character codes (0..255).  The grammar      *)
(* objects of the source are values built with the constructors of the     *)
(* parsing library (Literal, Word, And, MatchFirst, Opt, ...), each with   *)
(* its skipWhitespace flag, and  parse(e, s, loc, callPreParse)  is the    *)
(* library's e._parse: a record [ok, loc, toks] with the offset (0-based,  *)
(* as in Python) after the match and the tokens produced.                  *)
(***************************************************************************)
EXTENDS Integers, Sequences, FiniteSets, TLC

VARIABLES input, document, label_terminator, this_ptr, this_command,
          matched_by, matched, events, pc, error, scans

vars == <<input, document, label_terminator, this_ptr, this_command,
          matched_by, matched, events, pc, error, scans>>

(***************************************************************************)
(* Characters                                                              *)
(***************************************************************************)

\* The code of each character the documents of the model are written with.
Ord ==
  ("ETX" :> 3) @@ ("\t" :> 9) @@ ("\n" :> 10) @@ (" " :> 32) @@ ("#" :> 35) @@
  ("&" :> 38) @@ ("+" :> 43) @@ ("," :> 44) @@ ("-" :> 45) @@ ("." :> 46) @@
  ("0" :> 48) @@ ("1" :> 49) @@ ("2" :> 50) @@ ("3" :> 51) @@ ("4" :> 52) @@
  ("5" :> 53) @@ ("6" :> 54) @@ ("7" :> 55) @@ ("8" :> 56) @@ ("9" :> 57) @@
  (";" :> 59) @@ ("A" :> 65) @@ ("B" :> 66) @@ ("D" :> 68) @@ ("E" :> 69) @@ ("L" :> 76) @@
  ("M" :> 77) @@ ("P" :> 80) @@ ("S" :> 83) @@ ("T" :> 84) @@ ("U" :> 85) @@
  ("X" :> 88) @@ ("Y" :> 89) @@ ("_" :> 95) @@ ("a" :> 97) @@ ("b" :> 98) @@
  ("c" :> 99) @@ ("d" :> 100) @@ ("e" :> 101) @@ ("l" :> 108) @@ ("p" :> 112) @@
  ("u" :> 117)

\* A text, written as a tuple of characters, as a sequence of codes.
Str(t) == [i \in 1..Len(t) |-> Ord[t[i]]]

all_chars == 0..255
nums == 48..57
alphas_upper == 65..90
alphas_lower == 97..122
\* The characters the parsing library skips between tokens: " \n\t\r".
whitespace == {32, 10, 9, 13}
\* The characters str.strip() removes (those with isspace(), below 256).
strip_chars == (9..13) \cup (28..32) \cup {133, 160}
semicolon == Ord[";"]
numeric_separator_chars == {Ord[","], Ord["+"], Ord["-"]}
sm_valid_characters == {161, 254} \cup (33..58) \cup (60..125)
label_terminator_chars == all_chars \ {0, 5, 27, 59}

\* The character at 0-based offset loc of s (-1 past the end).
At(s, loc) == IF loc < Len(s) THEN s[loc + 1] ELSE -1

\* s[a:b] of Python.
Slice(s, a, b) == SubSeq(s, a + 1, b)

(***************************************************************************)
(* Tokens and parse results                                                *)
(***************************************************************************)

\* A string token, and a group of string tokens (a nested ParseResults).
Tok(str) == [grp |-> FALSE, str |-> str, sub |-> <<>>]
Grp(toks) == [grp |-> TRUE, str |-> <<>>,
              sub |-> [i \in 1..Len(toks) |-> toks[i].str]]

\* alt: the alternative taken, when the element is a MatchFirst.
Match(loc, toks) == [ok |-> TRUE, loc |-> loc, toks |-> toks, alt |-> 0]
NoMatch == [ok |-> FALSE, loc |-> 0, toks |-> <<>>, alt |-> 0]

\* "".join(tokens)
RECURSIVE Join(_)
Join(toks) == IF toks = <<>> THEN <<>> ELSE Head(toks).str \o Join(Tail(toks))

(***************************************************************************)
(* The constructors of the parsing library                                 *)
(***************************************************************************)

Element(type, skip, lit, chars, min, max, exprs) ==
  [type |-> type, skip |-> skip, lit |-> lit, chars |-> chars,
   min |-> min, max |-> max, exprs |-> exprs]

Literal(lit) == Element("Literal", TRUE, lit, {}, 0, 0, <<>>)
\* Word(chars): one or more characters of chars, as many as there are.
Word(chars) == Element("Word", TRUE, <<>>, chars, 1, 0, <<>>)
\* Word(chars, exact=n): exactly n characters of chars.
WordExact(chars, n) == Element("Word", TRUE, <<>>, chars, n, n, <<>>)
Char(chars) == WordExact(chars, 1)
\* White(): a run of " \t\r\n"; it skips none of them before it.
White == Element("Word", FALSE, <<>>, whitespace, 1, 0, <<>>)
\* e1 + e2 + ...: skips whitespace as its first element does.
And(exprs) == Element("And", exprs[1].skip, <<>>, {}, 0, 0, exprs)
\* e1 | e2 | ...: skips whitespace when all of its alternatives do.
MatchFirst(exprs) ==
  Element("MatchFirst", \A i \in 1..Len(exprs) : exprs[i].skip, <<>>, {}, 0, 0, exprs)
Opt(e) == Element("Opt", e.skip, <<>>, {}, 0, 0, <<e>>)
ZeroOrMore(e) == Element("ZeroOrMore", e.skip, <<>>, {}, 0, 0, <<e>>)
Group(e) == Element("Group", e.skip, <<>>, {}, 0, 0, <<e>>)
\* ~e: never skips whitespace itself (e does, when tried).
NotAny(e) == Element("NotAny", FALSE, <<>>, {}, 0, 0, <<e>>)

\* e.leave_whitespace(): e and all the elements in it stop skipping whitespace.
RECURSIVE leave_whitespace(_)
leave_whitespace(e) ==
  [e EXCEPT !.skip = FALSE,
            !.exprs = [i \in 1..Len(e.exprs) |-> leave_whitespace(e.exprs[i])]]

\* Combine(e): no whitespace inside e, the tokens of e joined into one.
Combine(e) == Element("Combine", TRUE, <<>>, {}, 0, 0, <<leave_whitespace(e)>>)

\* The offset after the longest run of characters of cs from loc, up to offset
\* end: the loop  while loc < end and s[loc] in cs: loc += 1.
RunEnd(s, loc, cs, end) ==
  IF loc >= end THEN loc
  ELSE CHOOSE i \in loc..end :
         /\ i = end \/ s[i + 1] \notin cs
         /\ \A j \in loc..(i - 1) : s[j + 1] \in cs

\* ParserElement.preParse of an element that skips whitespace.
preParse(s, loc) == RunEnd(s, loc, whitespace, Len(s))

parseWord(e, s, loc) ==
  LET maxloc == IF e.max > 0 /\ loc + e.max < Len(s) THEN loc + e.max ELSE Len(s)
      end == RunEnd(s, loc, e.chars, maxloc)
  IN IF end - loc >= e.min /\ end > loc
     THEN Match(end, <<Tok(Slice(s, loc, end))>>)
     ELSE NoMatch

parseLiteral(e, s, loc) ==
  IF loc + Len(e.lit) <= Len(s) /\ Slice(s, loc, loc + Len(e.lit)) = e.lit
  THEN Match(loc + Len(e.lit), <<Tok(e.lit)>>)
  ELSE NoMatch

RECURSIVE parse(_, _, _, _)
RECURSIVE parseAnd(_, _, _, _, _)
RECURSIVE parseMatchFirst(_, _, _, _)
RECURSIVE parseZeroOrMore(_, _, _)

\* e._parse(s, loc, callPreParse): preParse, then the parseImpl of e's class.
parse(e, s, loc, callPreParse) ==
  LET pre == IF callPreParse /\ e.skip THEN preParse(s, loc) ELSE loc
      r   == parse(e.exprs[1], s, pre, FALSE)
  IN CASE e.type = "Literal" -> parseLiteral(e, s, pre)
       [] e.type = "Word" -> parseWord(e, s, pre)
       [] e.type = "And" -> parseAnd(e.exprs, 1, s, pre, <<>>)
       [] e.type = "MatchFirst" -> parseMatchFirst(e.exprs, 1, s, pre)
       [] e.type = "ZeroOrMore" -> parseZeroOrMore(e.exprs[1], s, pre)
       [] e.type = "Opt" -> IF r.ok THEN r ELSE Match(pre, <<>>)
       [] e.type = "Group" -> IF r.ok THEN Match(r.loc, <<Grp(r.toks)>>) ELSE NoMatch
       [] e.type = "Combine" ->
            IF r.ok THEN Match(r.loc, <<Tok(Join(r.toks))>>) ELSE NoMatch
       [] e.type = "NotAny" ->
            IF parse(e.exprs[1], s, pre, TRUE).ok THEN NoMatch ELSE Match(pre, <<>>)

\* And.parseImpl: the first element where the And was pre-parsed, each of the
\* others after its own preParse.
parseAnd(exprs, i, s, loc, toks) ==
  LET r == parse(exprs[i], s, loc, i > 1)
  IN IF i > Len(exprs) THEN Match(loc, toks)
     ELSE IF r.ok THEN parseAnd(exprs, i + 1, s, r.loc, toks \o r.toks)
     ELSE NoMatch

\* MatchFirst.parseImpl: the first alternative, in order, that matches.
parseMatchFirst(exprs, i, s, loc) ==
  LET r == parse(exprs[i], s, loc, TRUE)
  IN IF i > Len(exprs) THEN NoMatch
     ELSE IF r.ok THEN [r EXCEPT !.alt = i]
     ELSE parseMatchFirst(exprs, i + 1, s, loc)

\* ZeroOrMore.parseImpl: e again and again from the end of the last match.
parseZeroOrMore(e, s, loc) ==
  LET r    == parse(e, s, loc, TRUE)
      rest == parseZeroOrMore(e, s, r.loc)
  IN IF r.ok THEN Match(rest.loc, r.toks \o rest.toks) ELSE Match(loc, <<>>)

(***************************************************************************)
(* Some basics, mnemonics, numeric parameters                              *)
(***************************************************************************)

not_semicolon == Char(all_chars \ {semicolon})

command_terminator == Literal(<<semicolon>>)

Lower(c) == IF c \in alphas_upper THEN c + 32 ELSE c
Upper(c) == IF c \in alphas_lower THEN c - 32 ELSE c

\* pp.Literal(m.lower()) | pp.Literal(m.upper())
mnemonic(m) ==
  MatchFirst(<<Literal([i \in 1..Len(m) |-> Lower(m[i])]),
               Literal([i \in 1..Len(m) |-> Upper(m[i])])>>)

mn_pen_up == mnemonic(Str(<<"P", "U">>))
mn_pen_down == mnemonic(Str(<<"P", "D">>))
mn_polyline_encoded == mnemonic(Str(<<"P", "E">>))
mn_symbol_mode == mnemonic(Str(<<"S", "M">>))
mn_label == mnemonic(Str(<<"L", "B">>))
mn_define_label_terminator == mnemonic(Str(<<"D", "T">>))
mn_other == MatchFirst(<<WordExact(alphas_upper, 2), WordExact(alphas_lower, 2)>>)

numeric_parameter ==
  Combine(And(<<Word(nums), Opt(And(<<Literal(<<Ord["."]>>), Word(nums)>>))>>))

numeric_separator == Char(numeric_separator_chars)

first_numeric_parameter_pair ==
  And(<<numeric_parameter, Opt(numeric_separator), numeric_parameter>>)

next_numeric_parameter_pair ==
  And(<<Opt(numeric_separator), numeric_parameter,
        Opt(numeric_separator), numeric_parameter>>)

unpaired_first_numeric_parameter == numeric_parameter

unpaired_next_numeric_parameter == And(<<Opt(numeric_separator), numeric_parameter>>)

numeric_parameter_pair_list ==
  And(<<MatchFirst(<<
          And(<<Group(And(<<first_numeric_parameter_pair,
                            ZeroOrMore(next_numeric_parameter_pair)>>)),
                Opt(unpaired_next_numeric_parameter)>>),
          Opt(unpaired_first_numeric_parameter)>>),
        NotAny(numeric_separator)>>)

(***************************************************************************)
(* Commands                                                                *)
(***************************************************************************)

cmd_pen_down ==
  And(<<mn_pen_down, numeric_parameter_pair_list, Opt(command_terminator)>>)

cmd_pen_up ==
  And(<<mn_pen_up, numeric_parameter_pair_list, Opt(command_terminator)>>)

\* A Polyline Encoded grammar whose terminator is optional, as it is for
\* Pen Up and Pen Down.
cmd_polyline_encoded_optional ==
  And(<<mn_polyline_encoded, ZeroOrMore(not_semicolon), Opt(command_terminator)>>)

cmd_polyline_encoded ==
  And(<<mn_polyline_encoded, ZeroOrMore(not_semicolon), command_terminator>>)

\* A Symbol Mode grammar whose character is not a letter, so that a letter
\* after the mnemonic is left to start the next command.
cmd_symbol_mode_no_letters ==
  And(<<mn_symbol_mode,
        MatchFirst(<<And(<<Char(sm_valid_characters \ (alphas_upper \cup alphas_lower)),
                           Opt(command_terminator)>>),
                     command_terminator>>)>>)

cmd_symbol_mode ==
  And(<<mn_symbol_mode,
        MatchFirst(<<And(<<Char(sm_valid_characters), Opt(command_terminator)>>),
                     command_terminator>>)>>)

label_terminator_char == Char(label_terminator_chars)

\* The first alternative of cmd_define_label_terminator: a terminator is given.
cmd_define_label_terminator_set ==
  And(<<leave_whitespace(And(<<Opt(White), mn_define_label_terminator,
                               label_terminator_char>>)),
        Opt(And(<<Opt(numeric_separator), Char({Ord["0"], Ord["1"]})>>)),
        Opt(command_terminator)>>)

\* The second alternative: the mnemonic and the command terminator.
cmd_define_label_terminator_abort ==
  And(<<mn_define_label_terminator, command_terminator>>)

cmd_label(terminator) ==
  And(<<leave_whitespace(
          And(<<mn_label,
                ZeroOrMore(Word(all_chars \ {terminator[i] : i \in 1..Len(terminator)})),
                Literal(terminator)>>)),
        Opt(command_terminator)>>)

cmd_other ==
  And(<<mn_other, ZeroOrMore(MatchFirst(<<numeric_separator, numeric_parameter>>)),
        Opt(command_terminator)>>)

\* command(label_terminator): its alternatives in the order they are tried,
\* the two of cmd_define_label_terminator in the place of it.
command(terminator) ==
  MatchFirst(<<cmd_pen_up, cmd_pen_down, cmd_polyline_encoded, cmd_symbol_mode,
               cmd_label(terminator), cmd_define_label_terminator_set,
               cmd_define_label_terminator_abort, cmd_other>>)

\* The names of the alternatives of command(label_terminator).
alternative_names == <<"PU", "PD", "PE", "SM", "LB", "DT", "DT;", "other">>

(***************************************************************************)
(* Parsing the entire file                                                 *)
(***************************************************************************)

\* The offset of the first character of cs in s at or after loc, Len(s) if none.
Find(s, loc, cs) == RunEnd(s, loc, all_chars \ cs, Len(s))

\* The column of offset loc of s when the column of offset 0 is col and no
\* tab is before loc: the characters since the last line break, if any.
Column(s, loc, col) ==
  LET breaks == {i \in 1..loc : s[i] \in {10, 13}}
  IN IF breaks = {} THEN col + loc
     ELSE loc - (CHOOSE i \in breaks : \A j \in breaks : j <= i)

\* str.expandtabs() of a text that starts at column col: each tab becomes the
\* spaces up to the next multiple of 8 columns.
RECURSIVE expandtabs_from(_, _)
expandtabs_from(s, col) ==
  LET t == Find(s, 0, {Ord["\t"]})
      c == Column(s, t, col)
      n == 8 - (c % 8)
  IN IF t = Len(s) THEN s
     ELSE Slice(s, 0, t) \o [k \in 1..n |-> Ord[" "]]
          \o expandtabs_from(Slice(s, t + 1, Len(s)), c + n)

\* scan_string works on the text with its tabs expanded.
expandtabs(s) == expandtabs_from(s, 0)

\* A document that is not trimmed.
untrimmed(s) == s

\* str.strip()
strip(s) ==
  LET a == RunEnd(s, 0, strip_chars, Len(s))
      keep == {i \in (a + 1)..Len(s) : s[i] \notin strip_chars}
  IN IF keep = {} THEN <<>>
     ELSE Slice(s, a, CHOOSE i \in keep : \A j \in keep : j <= i)

\* The loop of scan_string from loc: the first match of e that is not empty.
RECURSIVE scan_from(_, _, _)
scan_from(e, s, loc) ==
  LET preloc == IF e.skip THEN preParse(s, loc) ELSE loc
      r == parse(e, s, preloc, FALSE)
  IN IF loc > Len(s)
     THEN [found |-> FALSE, toks |-> <<>>, first |-> 0, next |-> 0, alt |-> 0]
     ELSE IF r.ok /\ r.loc > loc
          THEN [found |-> TRUE, toks |-> r.toks, first |-> preloc, next |-> r.loc,
                alt |-> r.alt]
          ELSE scan_from(e, s, preloc + 1)

\* next(command(terminator).scan_string(text)), found = FALSE for StopIteration.
\* by: the alternative of command() that made the match.
scan_string(text, terminator) ==
  LET m == scan_from(command(terminator), expandtabs(text), 0)
  IN [found |-> m.found, toks |-> m.toks, first |-> m.first, next |-> m.next,
      by |-> IF m.found THEN alternative_names[m.alt] ELSE "none"]

\* token == mn, for a string token and a mnemonic: mn.matches(token, parse_all=True)
mnemonic_eq(token, m) ==
  LET s == expandtabs(token.str)
      r == parse(mnemonic(m), s, 0, TRUE)
  IN ~token.grp /\ r.ok /\ preParse(s, r.loc) = Len(s)

\* int(param): the value of a string of digits; anything else is a ValueError.
RECURSIVE int(_)
int(param) ==
  IF param = <<>> THEN 0
  ELSE 10 * int(SubSeq(param, 1, Len(param) - 1)) + (param[Len(param)] - 48)

int_fails(param) == param = <<>> \/ \E i \in 1..Len(param) : param[i] \notin nums

\* The tokens of the last group of cmd (the paired parameters), [] without one.
RECURSIVE parsed_params(_)
parsed_params(cmd) ==
  IF cmd = <<>> THEN <<>>
  ELSE IF cmd[Len(cmd)].grp THEN cmd[Len(cmd)].sub
  ELSE parsed_params(SubSeq(cmd, 1, Len(cmd) - 1))

\* The strings of params that numeric_parameter.parse_string accepts.
RECURSIVE numeric_params(_)
numeric_params(params) ==
  IF params = <<>> THEN <<>>
  ELSE LET s == expandtabs(Head(params))
       IN (IF parse(numeric_parameter, s, 0, TRUE).ok THEN <<Head(params)>> ELSE <<>>)
          \o numeric_params(Tail(params))

\* A pairing that steps by one value: each value but the first starts a pair.
RECURSIVE in_pairs_overlapping(_)
in_pairs_overlapping(ints) ==
  IF Len(ints) < 2 THEN <<>>
  ELSE <<<<ints[1], ints[2]>>>> \o in_pairs_overlapping(Tail(ints))

\* The (x, y) pairs of a list of integers, two at a time.
RECURSIVE in_pairs(_)
in_pairs(ints) ==
  IF Len(ints) < 2 THEN <<>>
  ELSE <<<<ints[1], ints[2]>>>> \o in_pairs(SubSeq(ints, 3, Len(ints)))

\* extract_param_pairs(cmd): the pairs, or raised = TRUE for a ValueError
\* (int() of a literal with a fraction, or one value left to unpack).
extract_param_pairs(cmd) ==
  LET np == numeric_params(parsed_params(cmd))
      bad == (\E i \in 1..Len(np) : int_fails(np[i])) \/ (Len(np) % 2) = 1
  IN [raised |-> bad,
      pairs |-> IF bad THEN <<>> ELSE in_pairs([i \in 1..Len(np) |-> int(np[i])])]

(***************************************************************************)
(* The documents of the model                                              *)
(***************************************************************************)

\* The most command texts a generated document is made of.
MaxCommands == 2
\* The most numeric parameters of a generated Pen Up / Pen Down command.
MaxParams == 4

\* Command texts, well formed and not, and texts between commands.
CommandTexts == {
    Str(<<"D", "T", "&">>),
    Str(<<"D", "T", "&", ";">>),
    Str(<<"D", "T", "&", ",", "0", ";">>),
    Str(<<"D", "T", ";">>),
    Str(<<"L", "B", "a", "&">>),
    Str(<<"L", "B", "a", "ETX", ";">>),
    Str(<<"L", "B", "P", "U", "1", ",", "2", ";", "&">>),
    Str(<<"P", "U", "1", ",", "2", ";">>),
    Str(<<"P", "D", "3", ",", "4">>),
    Str(<<"P", "U">>),
    Str(<<"P", "D", ";">>),
    Str(<<"P", "U", "1", ",", ";">>),
    Str(<<"P", "U", "1", ".", "5", ",", "2", ";">>),
    Str(<<"p", "u", "1", "+", "2", "-", "3", ";">>),
    Str(<<"P", "E", " ", "1", "#", ";">>),
    Str(<<"P", "E", "a">>),
    Str(<<"S", "M", "P", "U", "1", ",", "2", ";">>),
    Str(<<"S", "M", ";">>),
    Str(<<"X", "Y", "1", ",", "2", ";">>),
    Str(<<"X", "Y">>),
    Str(<<".", ".">>),
    Str(<<" ">>),
    Str(<<"\t">>)}

\* The documents made of exactly n command texts.
RECURSIVE TextsOf(_)
TextsOf(n) ==
  IF n = 0 THEN {<<>>}
  ELSE {d \o t : d \in TextsOf(n - 1), t \in CommandTexts}

Numbers == {Str(<<"1">>), Str(<<"2", "3">>)}
Separators == {Str(<<",">>), Str(<<" ">>)}

\* The parameter lists of exactly n numbers, each but the first after a separator.
RECURSIVE ParamLists(_)
ParamLists(n) ==
  IF n = 0 THEN {<<>>}
  ELSE IF n = 1 THEN Numbers
  ELSE {l \o p \o x : l \in ParamLists(n - 1), p \in Separators, x \in Numbers}

\* Pen Up / Pen Down commands with up to MaxParams parameters.
PenDocuments ==
  {m \o l \o e : m \in {Str(<<"P", "U">>), Str(<<"P", "D">>)},
                 l \in UNION {ParamLists(n) : n \in 0..MaxParams},
                 e \in {<<>>, Str(<<";">>)}}

\* The document of test_parse_hp_gl_success, as written there and without
\* its indentation.
EndToEndIndented ==
  Str(<<"\n", " ", " ", " ", " ", " ", " ", " ", " ", "D", "T", "&", "\n", " ", " ", " ", " ", " ", " ", " ", " ", "P", "U", "1", "2", "\n", " ", " ", " ", " ", " ", " ", " ", " ", "P", "D", "1", "2", ",", "1", "3", "\n", " ", " ", " ", " ", " ", " ", " ", " ", "L", "B", "a", "-", "l", "a", "b", "e", "l", "&", "\n", " ", " ", " ", " ", " ", " ", " ", " ", "D", "T", "_", "\n", " ", " ", " ", " ", " ", " ", " ", " ", "X", "Y", "1", "2", ",", "1", "3", ",", "4", "3", "2", ",", "2", " ", "2", "3", "4", "\n", " ", " ", " ", " ", " ", " ", " ", " ", "L", "B", "a", "-", "l", "a", "b", "e", "l", "_", "\n", " ", " ", " ", " ", " ", " ", " ", " ", "P", "E", " ", "a", " ", "b", " ", "#", " ", "c", ";", "\n", " ", " ", " ", " ", " ", " ", " ", " ", "S", "M", " ", "c", "\n", " ", " ", " ", " ", " ", " ", " ", " ", "P", "D", "1", "4", "\n", " ", " ", " ", " ", " ", " ", " ", " ", "P", "U", "1", "5", ",", "1", "6", " ", "1", "7", " ", "1", "8", ";", "\n", " ", " ", " ", " ", " ", " ", " ", " ">>)

EndToEndCompact ==
  Str(<<"D", "T", "&", "\n", "P", "U", "1", "2", "\n", "P", "D", "1", "2", ",", "1", "3", "\n", "L", "B", "a", "-", "l", "a", "b", "e", "l", "&", "\n", "D", "T", "_", "\n", "X", "Y", "1", "2", ",", "1", "3", ",", "4", "3", "2", ",", "2", " ", "2", "3", "4", "\n", "L", "B", "a", "-", "l", "a", "b", "e", "l", "_", "\n", "P", "E", " ", "a", " ", "b", " ", "#", " ", "c", ";", "\n", "S", "M", " ", "c", "\n", "P", "D", "1", "4", "\n", "P", "U", "1", "5", ",", "1", "6", " ", "1", "7", " ", "1", "8", ";", "\n">>)

\* The documents of the other tests, and documents of special interest.
ExampleDocuments == {
    Str(<<" ", " ", "\n", "\t">>),
    Str(<<".", ".", ".">>),
    Str(<<".", ".", ".", "P", "D", "0", ",", "0", ",", "1", "0", ",", "1", "0", ";">>),
    Str(<<"\n", " ", " ", " ", " ", " ", " ", " ", " ", "P", "U", "1", "5", ",", "1", "6", " ", "1", "7", " ", "1", "8", "\n", " ", " ", " ", " ", " ", " ", " ", " ">>),
    Str(<<"P", "U", "1", "2", ".", "5", ",", "1", "3", ".", "7", ";">>),
    Str(<<"P", "U", "1", "2", ",", "1", "3", ",", "1", "4", ",", "1", "5", ",", "1", "6", ";">>),
    Str(<<"P", "D", "1", "2", ",", "1", "3", ",", ";">>),
    Str(<<"P", "E", " ", "1", "2", "3", " ", "#", "A", "B">>),
    Str(<<"P", "E", " ", "1", "2", "3", " ", "#", "A", "B", ";">>),
    Str(<<"D", "T", "&", ";", "L", "B", "a", "&", "P", "U", "1", ",", "2", ";">>),
    Str(<<"D", "T", "_", ";", "L", "B", "a", "_", "P", "U", "1", ",", "2", ";">>),
    Str(<<"D", "T", "&", ",", "0", ";", "L", "B", "a", "&", "P", "U", "1", ",", "2", ";">>),
    Str(<<"D", "T", ";", "L", "B", "a", "ETX", "P", "U", "1", ",", "2", ";">>),
    Str(<<"D", "T", "&", "L", "B", "P", "U", "1", ",", "2", ";", "&", "P", "D", "3", ",", "4", ";">>),
    Str(<<"S", "M", " ", "X", "Y", ";">>),
    Str(<<"P", "E", ";", "\n", "\t", "P", "U", "1", ";", "P", "D", ";">>),
    Str(<<"P", "U", "1", ",", "2", ";", " ", "L", "B", "P", "U", "3", ",", "4", ";", "ETX", ";">>),
    Str(<<"P", "U", "1", ",", "2", " ", "L", "B", "P", "U", "3", ",", "4", ";", "ETX", ";">>)}

Documents ==
  UNION {TextsOf(n) : n \in 0..MaxCommands} \cup PenDocuments
    \cup {EndToEndIndented, EndToEndCompact} \cup ExampleDocuments

(***************************************************************************)
(* parse_hp_gl                                                             *)
(***************************************************************************)

None == <<>>
ETX == <<Ord["ETX"]>>

UnparsableAt == "Failed to parse from this part of the document"
MisalignedMatch == "Parsing did not begin at the expected place in the document"
EmptyDocument == "Empty file"
MissingFinalTerminator == "File did not end with a semicolon"
ValueError == "ValueError"

DT == Str(<<"D", "T">>)
PU == Str(<<"P", "U">>)
PD == Str(<<"P", "D">>)

TypeOK ==
  /\ pc \in {"loop", "done", "raised"}
  /\ this_ptr \in Nat
  /\ Len(label_terminator) = 1

\* The generator has run up to its loop: the document is trimmed, nothing
\* is matched and the label terminator is ETX.
Init ==
  /\ input \in Documents
  /\ document = strip(input)
  /\ label_terminator = ETX
  /\ this_ptr = 0
  /\ this_command = None
  /\ matched_by = "none"
  /\ matched = <<>>
  /\ events = <<>>
  /\ pc = "loop"
  /\ error = "none"
  /\ scans = <<>>

\* The result of scan_string on document[this_ptr:].
Scan == scan_string(Slice(document, this_ptr, Len(document)), label_terminator)

\* this_command[0] in (mn_pen_up, mn_pen_down)
is_pen(cmd) == mnemonic_eq(cmd[1], PU) \/ mnemonic_eq(cmd[1], PD)

\* A loop body that never updates the label terminator.
kept_label_terminator(cmd, terminator) == terminator

\* The label terminator after cmd is matched (the two ifs of the loop body).
updated_label_terminator(cmd, terminator) ==
  IF Len(cmd) = 2 /\ mnemonic_eq(cmd[1], DT) THEN cmd[2].str
  ELSE IF Len(cmd) = 3 /\ strip(cmd[1].str) = <<>> /\ mnemonic_eq(cmd[2], DT)
       THEN cmd[3].str
  ELSE terminator

\* ";" in this_command[-1]
ends_with_semicolon(cmd) ==
  LET last == cmd[Len(cmd)]
  IN ~last.grp /\ \E i \in 1..Len(last.str) : last.str[i] = semicolon

\* A loop body without the test of first.
misaligned_never(m) == FALSE

\* first != 0
misaligned(m) == m.first # 0

\* A scan that collects its events and hands them over only on return.
RaiseDiscarding(e) == pc' = "raised" /\ error' = e /\ events' = <<>>

\* raise e: the events yielded so far stay with the consumer.
Raise(e) == pc' = "raised" /\ error' = e /\ events' = events

\* scan_string finds no command in the rest of the document.
Unparsable(m) ==
  /\ ~m.found
  /\ Raise(UnparsableAt)
  /\ UNCHANGED <<label_terminator, this_ptr, this_command, matched_by, matched>>

\* scan_string finds a command, but after the cursor.
Misaligned(m) ==
  /\ m.found /\ misaligned(m)
  /\ this_command' = m.toks
  /\ matched_by' = m.by
  /\ Raise(MisalignedMatch)
  /\ UNCHANGED <<label_terminator, this_ptr, matched>>

\* A Pen Up / Pen Down command at the cursor whose parameters int() rejects.
PenFails(m) ==
  /\ m.found /\ ~misaligned(m)
  /\ is_pen(m.toks) /\ extract_param_pairs(m.toks).raised
  /\ this_command' = m.toks
  /\ matched_by' = m.by
  /\ Raise(ValueError)
  /\ UNCHANGED <<label_terminator, this_ptr, matched>>

\* A loop body that leaves the cursor where it is.
AdvanceInPlace(m) ==
  /\ this_command' = m.toks
  /\ matched_by' = m.by
  /\ matched' = Append(matched, [by |-> m.by, toks |-> m.toks, at |-> this_ptr,
                                 first |-> m.first, next |-> m.next,
                                 terminator |-> label_terminator])
  /\ label_terminator' = updated_label_terminator(m.toks, label_terminator)
  /\ this_ptr' = this_ptr
  /\ UNCHANGED <<pc, error>>

\* The rest of the loop body after the command m is matched at the cursor.
Advance(m) ==
  /\ this_command' = m.toks
  /\ matched_by' = m.by
  /\ matched' = Append(matched, [by |-> m.by, toks |-> m.toks, at |-> this_ptr,
                                 first |-> m.first, next |-> m.next,
                                 terminator |-> label_terminator])
  /\ label_terminator' = updated_label_terminator(m.toks, label_terminator)
  /\ this_ptr' = this_ptr + m.next
  /\ UNCHANGED <<pc, error>>

\* A Pen Up / Pen Down command at the cursor: its event is yielded.
Yield(m) ==
  /\ m.found /\ ~misaligned(m)
  /\ is_pen(m.toks) /\ ~extract_param_pairs(m.toks).raised
  /\ events' = Append(events, <<m.toks[1].str, extract_param_pairs(m.toks).pairs>>)
  /\ Advance(m)

\* Any other command at the cursor: nothing is yielded.
Skip(m) ==
  /\ m.found /\ ~misaligned(m)
  /\ ~is_pen(m.toks)
  /\ events' = events
  /\ Advance(m)

\* One iteration of the loop: the scan from the cursor, and what follows from it.
Iterate ==
  /\ pc = "loop" /\ this_ptr < Len(document)
  /\ LET m == Scan
     IN Unparsable(m) \/ Misaligned(m) \/ PenFails(m) \/ Yield(m) \/ Skip(m)
  /\ UNCHANGED <<input, document, scans>>

\* After the loop: no command was ever matched.
EmptyFile ==
  /\ pc = "loop" /\ this_ptr >= Len(document)
  /\ this_command = None
  /\ Raise(EmptyDocument)
  /\ UNCHANGED <<input, document, label_terminator, this_ptr, this_command,
                 matched_by, matched, scans>>

\* After the loop: the last token of the last command has no ";".
MissingSemicolon ==
  /\ pc = "loop" /\ this_ptr >= Len(document)
  /\ this_command # None
  /\ ~ends_with_semicolon(this_command)
  /\ Raise(MissingFinalTerminator)
  /\ UNCHANGED <<input, document, label_terminator, this_ptr, this_command,
                 matched_by, matched, scans>>

\* After the loop: the generator returns.
Return ==
  /\ pc = "loop" /\ this_ptr >= Len(document)
  /\ this_command # None
  /\ ends_with_semicolon(this_command)
  /\ pc' = "done"
  /\ UNCHANGED <<input, document, label_terminator, this_ptr, this_command,
                 matched_by, matched, events, error, scans>>

Next ==
  \/ Iterate
  \/ EmptyFile
  \/ MissingSemicolon
  \/ Return

Spec == Init /\ [][Next]_vars

\* A second call whose label terminator is the one the first call left, as
\* if it were kept in the module.
ScanAgainSharingTerminator ==
  /\ pc \in {"done", "raised"} /\ scans = <<>>
  /\ scans' = <<[events |-> events, pc |-> pc, error |-> error]>>
  /\ document' = strip(input)
  /\ label_terminator' = label_terminator
  /\ this_ptr' = 0
  /\ this_command' = None
  /\ matched_by' = "none"
  /\ matched' = <<>>
  /\ events' = <<>>
  /\ pc' = "loop"
  /\ error' = "none"
  /\ UNCHANGED input

\* parse_hp_gl is called again on the same text, once the first call has
\* ended: scans keeps the outcome of the first call.
ScanAgain ==
  /\ pc \in {"done", "raised"} /\ scans = <<>>
  /\ scans' = <<[events |-> events, pc |-> pc, error |-> error]>>
  /\ document' = strip(input)
  /\ label_terminator' = ETX
  /\ this_ptr' = 0
  /\ this_command' = None
  /\ matched_by' = "none"
  /\ matched' = <<>>
  /\ events' = <<>>
  /\ pc' = "loop"
  /\ error' = "none"
  /\ UNCHANGED input

\* The documents that are scanned twice, and those scanned to their end.
ShortDocuments ==
  UNION {TextsOf(n) : n \in 0..(MaxCommands - 1)}
    \cup {EndToEndIndented, EndToEndCompact} \cup ExampleDocuments

InitShort == Init /\ input \in ShortDocuments

NextTwice ==
  \/ Iterate
  \/ EmptyFile
  \/ MissingSemicolon
  \/ Return
  \/ ScanAgain

SpecTwice == InitShort /\ [][NextTwice]_vars

\* The generator is run to its end: the consumer asks for every event, so a
\* step is taken whenever one can be. This is weak fairness of Next with its
\* enabling condition, pc = "loop", written out.
FairSpec ==
  InitShort /\ [][Next]_vars /\ ([]<>(pc # "loop") \/ []<><<Next>>_vars)

(***************************************************************************)
(* Properties                                                              *)
(***************************************************************************)

\* C1: every Define-Label-Terminator command matched at the cursor that
\* captures a terminator character c (with or without a mode digit, with or
\* without a trailing ";") makes c the label terminator in force for the next
\* command.
C1_CapturedTerminatorInForce ==
  \A i \in 1..Len(matched) :
    LET cmd == matched[i].toks
        c == IF strip(cmd[1].str) = <<>> THEN cmd[3].str ELSE cmd[2].str
        after == IF i < Len(matched) THEN matched[i + 1].terminator
                 ELSE label_terminator
    IN matched[i].by = "DT" => after = c

\* C2: the abort form "DT;" leaves the label terminator unchanged: the one in
\* force for the next command is the one in force before "DT;" was matched.
C2_AbortKeepsTerminator ==
  \A i \in 1..Len(matched) :
    LET after == IF i < Len(matched) THEN matched[i + 1].terminator
                 ELSE label_terminator
    IN matched[i].by = "DT;" => after = matched[i].terminator

\* C3: the scan of the document DT&, PU12, PD12,13, LBa-label&, DT_,
\* XY12,13,432,2 234, LBa-label_, PE a b # c;, SM c, PD14, PU15,16 17 18;
\* (one command a line, indented or not) completes without error and yields
\* exactly (PU, []), (PD, [(12,13)]), (PD, []), (PU, [(15,16),(17,18)]), in
\* that order.
C3_EndToEndEvents ==
  LET expected == << <<PU, <<>>>>,
                     <<PD, << <<12, 13>> >> >>,
                     <<PD, <<>>>>,
                     <<PU, << <<15, 16>>, <<17, 18>> >> >> >>
  IN input \in {EndToEndIndented, EndToEndCompact} =>
       /\ pc # "raised"
       /\ Len(events) <= 4
       /\ events = SubSeq(expected, 1, Len(events))
       /\ pc = "done" => events = expected

\* The scan of the indented document has returned, all four events yielded.
C3_Witness ==
  /\ input = EndToEndIndented
  /\ pc = "done"
  /\ Len(events) = 4
  /\ Len(matched) = 11

\* C4: a Pen Up / Pen Down command matched by its own grammar with N integer
\* parameters yields an event with exactly N \div 2 pairs, made of parameters
\* 1-2, 3-4, ... in the order met; of an odd N only the last is dropped.
C4_PairsInOrder ==
  LET cmd == this_command
      flat == [i \in 1..Len(cmd) |-> IF cmd[i].grp THEN cmd[i].sub ELSE <<cmd[i].str>>]
      all == IF Len(cmd) = 0 THEN <<>>
             ELSE LET cat[k \in 0..Len(cmd)] ==
                        IF k = 0 THEN <<>> ELSE cat[k - 1] \o flat[k]
                  IN cat[Len(cmd)]
      numbers == SelectSeq(all, LAMBDA x : x # <<>> /\ \A j \in 1..Len(x) : x[j] \in nums)
      fractions == SelectSeq(all, LAMBDA x : \E j \in 1..Len(x) : x[j] = Ord["."])
      value(x) == LET v[j \in 0..Len(x)] ==
                        IF j = 0 THEN 0 ELSE 10 * v[j - 1] + (x[j] - 48)
                  IN v[Len(x)]
      N == Len(numbers)
      pairs == [k \in 1..(N \div 2) |->
                  <<value(numbers[2 * k - 1]), value(numbers[2 * k])>>]
  IN (pc = "loop" /\ matched_by \in {"PU", "PD"} /\ fractions = <<>>) =>
       /\ events # <<>>
       /\ events[Len(events)] = <<cmd[1].str, pairs>>
       /\ Len(events[Len(events)][2]) = N \div 2

\* A Pen Up command with five parameters has yielded its two pairs, the
\* fifth parameter dropped.
C4_Witness ==
  /\ pc = "loop"
  /\ matched_by = "PU"
  /\ Len(this_command) = 5
  /\ this_command[2].grp /\ Len(this_command[2].sub) = 7
  /\ events # <<>>
  /\ events[Len(events)][2] = << <<12, 13>>, <<14, 15>> >>

\* C5: a Pen Up / Pen Down command matched at the cursor with a parameter
\* that has a fractional part yields its event, each parameter converted to
\* an integer by dropping the fraction; the scan does not fail because of it.
C5_FractionDropped ==
  LET cmd == this_command
      flat == [i \in 1..Len(cmd) |-> IF cmd[i].grp THEN cmd[i].sub ELSE <<cmd[i].str>>]
      all == IF Len(cmd) = 0 THEN <<>>
             ELSE LET cat[k \in 0..Len(cmd)] ==
                        IF k = 0 THEN <<>> ELSE cat[k - 1] \o flat[k]
                  IN cat[Len(cmd)]
      numbers == SelectSeq(all, LAMBDA x : x # <<>> /\ x[1] \in nums)
      fractions == SelectSeq(all, LAMBDA x : \E j \in 1..Len(x) : x[j] = Ord["."])
      whole(x) == LET v[j \in 0..Len(x)] ==
                        IF j = 0 THEN [n |-> 0, on |-> TRUE]
                        ELSE IF v[j - 1].on /\ x[j] \in nums
                             THEN [n |-> 10 * v[j - 1].n + (x[j] - 48), on |-> TRUE]
                             ELSE [n |-> v[j - 1].n, on |-> FALSE]
                  IN v[Len(x)].n
      N == Len(numbers)
      pairs == [k \in 1..(N \div 2) |->
                  <<whole(numbers[2 * k - 1]), whole(numbers[2 * k])>>]
  IN (matched_by \in {"PU", "PD"} /\ error # MisalignedMatch /\ fractions # <<>>) =>
       /\ error # ValueError
       /\ events # <<>>
       /\ events[Len(events)] = <<cmd[1].str, pairs>>

\* C6: a Pen Up / Pen Down command whose parameter list is followed by a bare
\* separator and no parameter (as in "PU12,;") is never matched as a command
\* at the cursor, and no event is yielded for it.
C6_TrailingSeparatorFails ==
  \A i \in 1..Len(matched) :
    LET cmd == matched[i].toks
        n == Len(cmd)
    IN ~ /\ n >= 4
         /\ \A j \in 1..n : ~cmd[j].grp
         /\ [k \in 1..Len(cmd[1].str) |-> Upper(cmd[1].str[k])] \in {PU, PD}
         /\ cmd[n].str = <<semicolon>>
         /\ cmd[n - 1].str = <<Ord[","]>>
         /\ cmd[n - 2].str # <<>> /\ \A k \in 1..Len(cmd[n - 2].str) : cmd[n - 2].str[k] \in nums

\* C7: when every command of the document matches at the cursor up to its
\* end, the scan ends without error exactly when the last matched command
\* consumed a ";" command terminator; without one it ends with
\* MissingFinalTerminator.
C7_FinalTerminator ==
  LET cmd == this_command
      n == Len(cmd)
      terminated ==
        /\ ~cmd[n].grp /\ cmd[n].str = <<semicolon>>
        /\ matched_by = "LB" =>
             n >= 3 /\ cmd[n - 1].str = matched[Len(matched)].terminator
      reached_end == error = ValueError => this_ptr + Scan.next >= Len(document)
  IN (pc # "loop" /\ this_command # None /\ reached_end
        /\ error \notin {UnparsableAt, MisalignedMatch}) =>
       /\ pc = "done" <=> terminated
       /\ pc = "raised" => error = MissingFinalTerminator

\* C8: where no command matches at the cursor, the scan fails with
\* UnparsableAt when no command matches at any later offset of the rest of
\* the document, and with MisalignedMatch when the first match starts after
\* the cursor; a match that starts after the cursor is never accepted.
C8_NoMatchAtCursor ==
  LET rest == expandtabs(Slice(document, this_ptr, Len(document)))
      hit(loc) == LET r == parse(command(label_terminator), rest, loc, FALSE)
                  IN r.ok /\ r.loc > loc
      hits == {loc \in 0..Len(rest) : hit(loc)}
      failed == pc = "raised" /\ this_ptr < Len(document) /\ error # ValueError
  IN /\ \A i \in 1..Len(matched) : matched[i].first = 0
     /\ failed => 0 \notin hits
     /\ (failed /\ hits = {}) => error = UnparsableAt
     /\ (failed /\ hits # {}) => error = MisalignedMatch
     /\ error = UnparsableAt => failed /\ hits = {}
     /\ error = MisalignedMatch => failed /\ hits # {}

\* The scan has failed with MisalignedMatch after a first command: the next
\* one starts three characters after the cursor.
C8_Witness ==
  /\ pc = "raised"
  /\ error = MisalignedMatch
  /\ Scan.found /\ Scan.first = 2
  /\ Len(matched) = 1

\* C9: the scan fails with EmptyDocument exactly when the document is empty
\* once its whitespace is trimmed; no event is yielded then.
C9_EmptyDocument ==
  LET blank == \A i \in 1..Len(input) : input[i] \in strip_chars
  IN /\ error = EmptyDocument => blank /\ events = <<>> /\ pc = "raised"
     /\ (blank /\ pc # "loop") => error = EmptyDocument
     /\ blank => pc # "done" /\ events = <<>> /\ matched = <<>>

\* The scan of a document of blanks, a newline and a tab has failed with
\* EmptyDocument.
C9_Witness ==
  /\ Len(input) = 4
  /\ document = <<>>
  /\ pc = "raised"
  /\ error = EmptyDocument

\* C10: when the scan fails after k commands matched at the cursor, the
\* events yielded are exactly those of the Pen Up / Pen Down commands among
\* the k, in document order, and no event is yielded after the failure.
C10_EventsBeforeError ==
  LET pen(cmd) == [k \in 1..Len(cmd[1].str) |-> Upper(cmd[1].str[k])] \in {PU, PD}
      pens == SelectSeq(matched, LAMBDA c : ~c.toks[1].grp /\ pen(c.toks))
  IN pc = "raised" =>
       /\ Len(events) = Len(pens)
       /\ \A i \in 1..Len(pens) :
            events[i] = <<pens[i].toks[1].str, extract_param_pairs(pens[i].toks).pairs>>
       /\ ~ENABLED Next

\* The scan has failed at the end of the document after two commands, one
\* of them a Pen Up command whose event was yielded before.
C10_Witness ==
  /\ pc = "raised"
  /\ error = MissingFinalTerminator
  /\ Len(matched) = 2
  /\ events = << <<PU, << <<1, 2>> >> >> >>

\* C11: exactly one event is yielded for each command matched at the cursor
\* whose mnemonic is PU or PD (in either case), in document order, and none
\* for a matched command with another mnemonic: every event is a Pen Up or a
\* Pen Down.
C11_OneEventPerPenCommand ==
  LET upper(str) == [k \in 1..Len(str) |-> Upper(str[k])]
      cmds == [i \in 1..Len(matched) |-> matched[i].toks]
                \o (IF error = ValueError THEN <<this_command>> ELSE <<>>)
      pens == SelectSeq(cmds, LAMBDA c : ~c[1].grp /\ upper(c[1].str) \in {PU, PD})
  IN /\ Len(events) = Len(pens)
     /\ \A i \in 1..Len(events) :
          /\ upper(events[i][1]) \in {PU, PD}
          /\ i <= Len(pens) => events[i][1] = pens[i][1].str

\* C12: a Polyline Encoded command at the cursor with no ";" after it in the
\* document never lets the scan return normally; with a ";" after it, it is
\* matched up to and including the first ";" and yields no event.
C12_PolylineEncodedTerminator ==
  /\ [](\A i \in 1..Len(matched) :
          LET cmd == matched[i].toks
              rest == expandtabs(Slice(document, matched[i].at, Len(document)))
              semis == {k \in 1..Len(rest) : rest[k] = semicolon}
              first == CHOOSE k \in semis : \A j \in semis : k <= j
              text == SelectSeq(SubSeq(rest, 1, first), LAMBDA c : c \notin whitespace)
          IN [k \in 1..Len(cmd[1].str) |-> Upper(cmd[1].str[k])] = Str(<<"P", "E">>) =>
               /\ semis = {} => matched[i].by # "PE" /\ pc # "done"
               /\ semis # {} =>
                    /\ matched[i].by = "PE"
                    /\ matched[i].next = first
                    /\ Join(cmd) = text)
  /\ [][(matched' # matched /\ matched_by' = "PE") => events' = events]_vars

\* The scan of "PE 123 #AB;" has returned: one command, its text without
\* the blanks, and no event.
C12_Witness ==
  /\ pc = "done"
  /\ Len(matched) = 1
  /\ matched[1].by = "PE"
  /\ Join(matched[1].toks) = Str(<<"P", "E", "1", "2", "3", "#", "A", "B", ";">>)
  /\ events = <<>>

\* C13: two scans of the same text have the same outcome, the same events
\* followed by the same end (return, or the same error), and every scan
\* starts with the label terminator ETX, whatever a DT command set in the
\* scan before.
C13_SameOutcomeTwice ==
  /\ (pc = "loop" /\ this_command = None) => label_terminator = ETX
  /\ scans # <<>> =>
       /\ Len(events) <= Len(scans[1].events)
       /\ events = SubSeq(scans[1].events, 1, Len(events))
       /\ pc # "loop" => [events |-> events, pc |-> pc, error |-> error] = scans[1]

\* The second scan of a document has ended as the first did, after a DT
\* command changed the label terminator in both.
C13_Witness ==
  /\ scans # <<>>
  /\ pc = "done"
  /\ scans[1].pc = "done"
  /\ Len(events) = 1
  /\ \E i \in 1..Len(matched) : matched[i].terminator # ETX

\* C14: the label terminator is always ETX or a character captured by an
\* earlier Define-Label-Terminator match of the same scan, and a matched
\* command whose mnemonic is not DT leaves it unchanged, whatever the number
\* of its tokens.
C14_TerminatorOnlyFromDT ==
  LET captured(cmd) == IF strip(cmd[1].str) = <<>> THEN cmd[3].str ELSE cmd[2].str
      mnemonic_of(cmd) == LET t == IF strip(cmd[1].str) = <<>> /\ Len(cmd) > 1
                                    THEN cmd[2] ELSE cmd[1]
                          IN [k \in 1..Len(t.str) |-> Upper(t.str[k])]
      after(i) == IF i < Len(matched) THEN matched[i + 1].terminator
                  ELSE label_terminator
  IN /\ \/ label_terminator = ETX
        \/ \E i \in 1..Len(matched) :
             matched[i].by = "DT" /\ captured(matched[i].toks) = label_terminator
     /\ \A i \in 1..Len(matched) :
          mnemonic_of(matched[i].toks) # DT => after(i) = matched[i].terminator

\* C15: each match advances the cursor by exactly the document characters
\* the matched command spans, tabs between tokens and commands included, so
\* the cursor never passes the end of the trimmed document and the scan ends
\* its loop only when the whole document is consumed.
C15_CursorFollowsDocument ==
  /\ this_ptr <= Len(document)
  /\ (pc = "done" \/ error = MissingFinalTerminator) => this_ptr = Len(document)
  /\ \A i \in 1..Len(matched) :
       LET at == matched[i].at
           next == matched[i].next
           rest == Slice(document, at, Len(document))
       IN /\ at + next <= Len(document)
          /\ expandtabs(Slice(document, at, at + next))
               = SubSeq(expandtabs(rest), 1, next)
          /\ i < Len(matched) => matched[i + 1].at = at + next

\* C16: a Label command at the cursor, with or without whitespace before
\* its mnemonic, is matched by the Label grammar up to and including the first
\* occurrence of the label terminator in force, so the text between the
\* mnemonic and that occurrence is never scanned as a command.
C16_LabelTextSkipped ==
  \A i \in 1..Len(matched) :
    LET rest == expandtabs(Slice(document, matched[i].at, Len(document)))
        w == preParse(rest, 0)
        t == matched[i].terminator[1]
        ends == {k \in (w + 3)..Len(rest) : rest[k] = t}
        end == CHOOSE k \in ends : \A j \in ends : k <= j
    IN (/\ Len(rest) >= w + 2
        /\ <<Upper(rest[w + 1]), Upper(rest[w + 2])>> = Str(<<"L", "B">>)
        /\ ends # {}) =>
         /\ matched[i].by = "LB"
         /\ matched[i].next >= end
         /\ i < Len(matched) => matched[i + 1].at >= matched[i].at + end

\* C17: the command at the cursor is chosen by the first grammar that matches
\* in the order PU, PD, PE, SM, LB, DT, other, and text that begins with PU,
\* PD, PE, SM, LB or DT (in either case) is never matched by the grammar of
\* the other commands.
C17_DedicatedMnemonicsDisjoint ==
  \A i \in 1..Len(matched) :
    LET cmd == matched[i].toks
        rest == expandtabs(Slice(document, matched[i].at, Len(document)))
        earlier(n) == \E k \in 1..(n - 1) :
                        parse(command(matched[i].terminator).exprs[k], rest, 0, TRUE).ok
    IN /\ \E n \in 1..Len(alternative_names) :
            alternative_names[n] = matched[i].by /\ ~earlier(n)
       /\ matched[i].by = "other" =>
            [k \in 1..Len(cmd[1].str) |-> Upper(cmd[1].str[k])]
              \notin {PU, PD, DT, Str(<<"P", "E">>), Str(<<"S", "M">>), Str(<<"L", "B">>)}

\* C18: in a Symbol Mode command at the cursor, a character of the allowed
\* set after the mnemonic is always taken as the parameter of the command
\* and never starts the next command, even when it is the first letter of a
\* mnemonic; "SM;" is matched by the form that has only the terminator.
C18_SymbolModeCharacter ==
  /\ \A i \in 1..Len(matched) :
       LET cmd == matched[i].toks
           rest == expandtabs(Slice(document, matched[i].at, Len(document)))
           w == preParse(rest, 0)
           p == preParse(rest, w + 2)
           c == At(rest, p)
       IN (/\ Len(rest) >= w + 2
           /\ <<rest[w + 1], rest[w + 2]>>
                \in {Str(<<"S", "M">>), <<Lower(Ord["S"]), Lower(Ord["M"])>>}
           /\ c \in sm_valid_characters \cup {semicolon}) =>
            /\ matched[i].by = "SM"
            /\ cmd[2].str = <<c>>
            /\ matched[i].next >= p + 1
            /\ i < Len(matched) => matched[i + 1].at >= matched[i].at + p + 1
            /\ c = semicolon => Len(cmd) = 2 /\ matched[i].next = p + 1
            /\ c # semicolon => Len(cmd) = 2 \/ (Len(cmd) = 3 /\ cmd[3].str = <<semicolon>>)
  /\ input = Str(<<"S", "M", "P", "U", "1", ",", "2", ";">>) => events = <<>>

\* "SM XY;" is scanned: the Symbol Mode command has taken X, and the scan
\* has failed at "Y;".
C18_Witness ==
  /\ input = Str(<<"S", "M", " ", "X", "Y", ";">>)
  /\ Len(matched) = 1
  /\ matched[1].by = "SM"
  /\ matched[1].toks[2].str = Str(<<"X">>)
  /\ this_ptr = 4
  /\ error = UnparsableAt

\* C19: every scan ends: an iteration of the loop raises an error or moves
\* the cursor forward by at least one character (no empty match is
\* accepted), so the loop runs at most Len(document) times before the scan
\* returns or fails.
C19_Terminates ==
  /\ [][(pc = "loop" /\ pc' = "loop") =>
          /\ this_ptr' > this_ptr
          /\ Len(matched') = Len(matched) + 1]_vars
  /\ [](/\ \A i \in 1..Len(matched) : matched[i].next >= 1
        /\ Len(matched)
             + (IF error \in {UnparsableAt, MisalignedMatch, ValueError} THEN 1 ELSE 0)
             <= Len(document))
  /\ <>(pc # "loop")

\* A scan has returned after two iterations, the first of them over a
\* command of three characters, the second over the ten that were left.
C19_Witness ==
  /\ pc = "done"
  /\ scans = <<>>
  /\ Len(matched) = 2
  /\ matched[1].next = 3
  /\ Len(document) = 13
  /\ this_ptr = Len(document)

====
